---- MODULE Spec2Model ----
(***************************************************************************)
(* Cache-backed conversation window with threshold-triggered               *)
(* summarization.                                                          *)
(*                                                                         *)
(* Two coordinators live in the repository and both are modelled here:     *)
(*   - the microservice one: POST /rag/{session_id}/chat (RAG/rag_api.py)  *)
(*     over RAGService.store_message / RAGService.chat (RAG/rag_service.py)*)
(*     which talks over HTTP to the cache service (Cache/cache_api.py,     *)
(*     Cache/cache_service.py) and to the chat service (Chat/chat_api.py,  *)
(*     Chat/chat_service.py);                                              *)
(*   - the monolith one: RAGChatbot (rag.py) over RedisCache               *)
(*     (cache_manager.py), CassandraManager (db_manager.py) and            *)
(*     trigger_summarization_task (summarization_service.py).              *)
(*                                                                         *)
(* A request of the microservice is a process that advances from one       *)
(* await (one HTTP call, one model call) to the next; the local code       *)
(* between two awaits belongs to the step of the first one.                *)
(***************************************************************************)
EXTENDS Integers, Sequences, FiniteSets, TLC

\* ------------------------------------------------------------------------
\* Bounds of the model
\* ------------------------------------------------------------------------
\* config['cache']['message_limit'] / CACHE_MESSAGE_LIMIT, scaled down
MessageLimit == 3
\* number of POST /rag/{session_id}/chat requests that are started
MaxTurns == 3
\* number of RAGChatbot._store_message calls that are started
MaxStores == 5
\* number of chat requests started when several are in flight
MaxConcTurns == 2
\* number of chat requests started where the transcript is read back
MaxReadTurns == 2
\* number of chat requests started where sessions are deleted
MaxDeleteTurns == 2
\* number of RedisService method calls made
MaxCalls == 5
\* number of chat requests started where the attempts of ServiceClient are
\* told apart
MaxRetryTurns == 1
\* number of _store_message calls of the RAGChatbot used synchronously
MaxSyncStores == 10
\* number of chat requests started by the client whose calls all succeed
MaxSeqTurns == 4
\* largest value of config['retry']['max_retries']
MaxRetries == 3

Sessions == {"s1", "s2"}
Procs == {1, 2}
\* texts a user sends: the k-th request of a run sends the k-th text, so
\* that every user message of a run is told apart from the others
Contents == <<"a", "b", "c", "d", "e", "f">>
\* texts the agent answers
Answers == {"r"}

\* ------------------------------------------------------------------------
\* Redis list commands (the store under RedisService / RedisCache)
\* ------------------------------------------------------------------------
NormIdx(i, n) == IF i < 0 THEN n + i ELSE i

\* LRANGE key start stop, with Redis' index normalisation
LRange(list, start, stop) ==
    LET n  == Len(list)
        s0 == NormIdx(start, n)
        e0 == NormIdx(stop, n)
        s  == IF s0 < 0 THEN 0 ELSE s0
        e  == IF e0 >= n THEN n - 1 ELSE e0
    IN  IF s > e \/ s >= n THEN <<>> ELSE SubSeq(list, s + 1, e + 1)

\* LTRIM key start stop keeps what LRANGE would return
LTrim(list, start, stop) == LRange(list, start, stop)

RPush(list, x) == Append(list, x)

\* an Optional[int] argument: None, or an integer
NoneInt == <<>>
IntV(n) == <<n>>

\* ------------------------------------------------------------------------
\* Summaries
\* ------------------------------------------------------------------------
\* A Redis summary key / a summary row: absent, or a text.  A text is the
\* sequence of conversation lines the summary-model call was given to fold.
None == [has |-> FALSE, text |-> <<>>]
Some(t) == [has |-> TRUE, text |-> t]

\* current_summary.get("summary", "") or ""    /   get_summary(...) or ""
OrEmpty(slot) == IF slot.has THEN slot.text ELSE <<>>

\* f"{role}: {msg['content']}\n" for every message, in order
FormatConversationText(messages) ==
    [i \in 1..Len(messages) |-> <<messages[i].role, messages[i].content>>]

\* summary_model.ainvoke(summarization_template.format(current_summary,
\* conversation)).content : the text folds the old summary and the batch
SummaryModel(current_summary, conversation) == current_summary \o conversation

\* ------------------------------------------------------------------------
\* RedisService (Cache/cache_service.py), one operator per method: the new
\* list / value and the returned value
\* ------------------------------------------------------------------------
\* json.dumps({'role': ..., 'content': ...}) then json.loads: the timestamp
\* of the payload is not stored
CacheEntry(message) == [role |-> message.role, content |-> message.content]

\* an add_message that pushes at the head of the list (LPUSH)
AddMessageListLeft(list, message) == <<CacheEntry(message)>> \o list

AddMessageList(list, message) == RPush(list, CacheEntry(message))

\* an add_message that reports the limit only on the append that reaches it
AddMessageNeedsSummarizationOnce(list, message) ==
    Len(AddMessageList(list, message)) = MessageLimit

\* current_count = llen(messages_key); current_count >= message_limit
AddMessageNeedsSummarization(list, message) ==
    Len(AddMessageList(list, message)) >= MessageLimit

\* a get_messages that reads from the head of the list: LRANGE 0 limit-1
GetMessagesFromHead(list, limit) ==
    IF limit # NoneInt THEN LRange(list, 0, limit[1] - 1) ELSE LRange(list, 0, -1)

\* get_messages(session_id, limit): limit is None -> whole list
GetMessages(list, limit) ==
    IF limit # NoneInt THEN LRange(list, 0 - limit[1], -1) ELSE LRange(list, 0, -1)

\* get_message_count(session_id): LLEN
GetMessageCount(list) == Len(list)

\* get_summary(session_id): GET, None without the key
GetSummary(summary) == summary

\* trim_cache(session_id, keep_last)
TrimCacheList(list, keep_last) ==
    IF keep_last # NoneInt /\ Len(list) > keep_last[1]
    THEN LTrim(list, 0 - keep_last[1], -1)
    ELSE list

\* a trim_cache that trims from current_count >= keep_last on
TrimCacheReturnAtLeast(list, keep_last) ==
    keep_last # NoneInt /\ Len(list) >= keep_last[1]

TrimCacheReturn(list, keep_last) ==
    keep_last # NoneInt /\ Len(list) > keep_last[1]

\* clear_session(session_id): DELETE of the messages key, then DELETE of the
\* summary key; an exception of the first leaves both keys, an exception of
\* the second leaves the summary key
ClearOutcomes == {"ok", "raise_first", "raise_second"}

ClearSessionList(list, outcome) ==
    IF outcome = "raise_first" THEN list ELSE <<>>

\* a clear_session that deletes the messages key only
ClearSessionSummaryKept(summary, outcome) == summary

ClearSessionSummary(summary, outcome) ==
    IF outcome = "ok" THEN None ELSE summary

\* GET /cache/{session_id}/messages: the query parameter limit defaults to 0
ApiGetMessagesDefaultLimit == IntV(0)

\* DELETE /cache/{session_id}/trim as RAGService.store_message sends it:
\* no keep_last query parameter, so the endpoint's default None is used
StoreMessageTrimKeepLast == NoneInt

\* ------------------------------------------------------------------------
\* State
\* ------------------------------------------------------------------------
VARIABLES
    window,      \* cache service:  session -> Redis list session:{id}:messages
    csum,        \* cache service:  session -> Redis key session:{id}:summary
    durable,     \* chat service:   session -> rows of chat_messages, oldest first
    dsum,        \* chat service:   session -> row of session_summaries
    nextId,      \* source of uuid1 message ids
    turns,       \* number of chat requests started
    pc,          \* request -> the await it is suspended at
    req,         \* request -> locals of chat() and of store_message()
    triggered,   \* session -> number of summarization cycles entered
    crossings,   \* session -> number of appends that took the list from
                 \*            below message_limit to message_limit
    \* the monolith: one RAGChatbot with its session
    rc_messages,     \* RedisCache: the list session:{id}:messages
    rc_summary,      \* RedisCache: the key session:{id}:summary
    current_count,   \* RedisCache.current_count
    cass_messages,   \* CassandraManager: rows of chat_messages, oldest first
    cass_summary,    \* CassandraManager: row of session_summaries
    tasks,           \* summarization tasks created and not yet run
    mphase,          \* position inside RAGChatbot.chat
    mstores,         \* number of _store_message calls started
    mcached,         \* contents that were pushed to the Redis list
    mfolded,         \* contents of the batches whose summarization succeeded
                     \* and whose summary was stored
    mcycle,          \* the summarization cycle run by the last step, if any:
                     \* the stores before it, the arguments and the result
                     \* of summarize_async
    \* the user service and the callers of RedisService
    directory,       \* user service: the session ids in user_sessions
    call,            \* the last call of a RedisService method: its arguments,
                     \* its result and the stores before it
    added,           \* session -> the messages given to add_message since
                     \*            the list of the session was last empty
    trimmed,         \* session -> trim_cache has cut the list since then
    ncalls,          \* number of RedisService calls made
    initialized,     \* RedisService._initialized
    \* ServiceClient
    max_retries,     \* self.settings.get("max_retries", 3)
    rq               \* the _request call in progress or made last: its loop
                     \* index, the attempts made and what they met

micro_vars == <<window, csum, durable, dsum, nextId, turns, pc, req, triggered, crossings>>

mono_vars == <<rc_messages, rc_summary, current_count, cass_messages, cass_summary,
               tasks, mphase, mstores, mcached, mfolded, mcycle>>

cache_vars == <<call, added, trimmed, ncalls, initialized>>

client_vars == <<max_retries, rq>>

other_vars == <<directory, cache_vars, client_vars>>

vars == <<micro_vars, mono_vars, other_vars>>

\* no row in session_summaries
NoRow == [has |-> FALSE, text |-> <<>>, message_count |-> 0]

\* the last step ran no summarization cycle
NoCycle == [ran |-> FALSE, failed |-> FALSE, pre_summary |-> None,
            pre_messages |-> <<>>, batch |-> <<>>,
            previous |-> <<>>, new_summary |-> <<>>]

\* no RedisService call was made yet
NoCall == [op |-> "none", session |-> "s1", arg |-> NoneInt, outcome |-> "none",
           ret |-> <<>>, flag |-> FALSE, again |-> FALSE, init |-> TRUE,
           window |-> [s \in Sessions |-> <<>>],
           csum |-> [s \in Sessions |-> None]]

\* self.settings.get("max_retries", 3)
DefaultMaxRetries == 3

\* no _request call was made yet
NoRequest == [target |-> "none", session |-> "s1", max |-> DefaultMaxRetries,
              attempt |-> 0, made |-> 0, outcomes |-> <<>>, state |-> "idle",
              got |-> FALSE, before |-> 0]

IdleReq ==
    [op |-> "chat",
     session |-> "s1", content |-> "a", phase |-> "user", response |-> "a",
     message_id |-> 0,
     all_messages |-> <<>>, current_summary |-> None, new_summary |-> <<>>,
     history_data |-> <<>>, summary_data |-> None, messages_payload |-> <<>>,
     dur |-> "none", cache |-> "none", appended |-> FALSE, cyc |-> FALSE, completed |-> FALSE,
     base |-> None,
     hist |-> "none", sumr |-> "none", degraded |-> FALSE,
     returned |-> <<>>, cache_calls |-> 0, cold |-> FALSE,
     win_before |-> <<>>, sum_before |-> None,
     del_cache |-> "none", del_chat |-> "none", del_user |-> "none",
     stores |-> 0, agent_calls |-> 0,
     ret1 |-> "none", ret2 |-> "none", result |-> "none"]

Init ==
    /\ window = [s \in Sessions |-> <<>>]
    /\ csum = [s \in Sessions |-> None]
    /\ durable = [s \in Sessions |-> <<>>]
    /\ dsum = [s \in Sessions |-> None]
    /\ nextId = 1
    /\ turns = 0
    /\ pc = [p \in Procs |-> "idle"]
    /\ req = [p \in Procs |-> IdleReq]
    /\ triggered = [s \in Sessions |-> 0]
    /\ crossings = [s \in Sessions |-> 0]
    /\ rc_messages = <<>>
    /\ rc_summary = None
    /\ current_count = 0
    /\ cass_messages = <<>>
    /\ cass_summary = NoRow
    /\ tasks = {}
    /\ mphase = "idle"
    /\ mstores = 0
    /\ mcached = {}
    /\ mfolded = {}
    /\ mcycle = NoCycle
    /\ directory = {}
    /\ call = NoCall
    /\ added = [s \in Sessions |-> <<>>]
    /\ trimmed = [s \in Sessions |-> FALSE]
    /\ ncalls = 0
    /\ initialized = TRUE
    /\ max_retries = DefaultMaxRetries
    /\ rq = NoRequest

\* the message store_message is storing in the current phase of the request
CurRole(r) == IF r.phase = "user" THEN "user" ELSE "assistant"
CurContent(r) == IF r.phase = "user" THEN r.content ELSE r.response
CurMessage(r) == [role |-> CurRole(r), content |-> CurContent(r)]

\* ------------------------------------------------------------------------
\* POST /rag/{session_id}/chat (RAG/rag_api.py) around store_message
\* ------------------------------------------------------------------------
\* store_message returned a dict: the endpoint does not look at it and goes
\* on (to rag.chat after the user message, to the response after the
\* assistant message)
StoreReturned(p, r, success) ==
    IF r.phase = "user"
    THEN /\ pc' = [pc EXCEPT ![p] = "agent"]
         /\ req' = [req EXCEPT ![p] =
                [r EXCEPT !.ret1 = success,
                          !.all_messages = <<>>, !.current_summary = None,
                          !.new_summary = <<>>]]
    ELSE /\ pc' = [pc EXCEPT ![p] = "title"]
         /\ req' = [req EXCEPT ![p] =
                [r EXCEPT !.ret2 = success,
                          !.all_messages = <<>>, !.current_summary = None,
                          !.new_summary = <<>>]]

\* store_message raised (except Exception: raise e), the endpoint turns it
\* into HTTP 500
StoreRaised(p, r) ==
    /\ pc' = [pc EXCEPT ![p] = "done"]
    /\ req' = [req EXCEPT ![p] =
           [r EXCEPT !.ret1 = IF r.phase = "user" THEN "raise" ELSE r.ret1,
                     !.ret2 = IF r.phase = "user" THEN r.ret2 ELSE "raise",
                     !.all_messages = <<>>, !.current_summary = None,
                     !.new_summary = <<>>,
                     !.result = "error"]]

\* the request arrives; uuid1 for the user message; store_message is entered
BeginChatOf(p, sessions, contents, max_turns) ==
    /\ pc[p] \in {"idle", "done"}
    /\ turns < max_turns
    /\ \E s \in sessions, c \in contents :
           req' = [req EXCEPT ![p] =
               [IdleReq EXCEPT !.session = s, !.content = c,
                               !.message_id = nextId, !.stores = 1]]
    /\ pc' = [pc EXCEPT ![p] = "dur"]
    /\ nextId' = nextId + 1
    /\ turns' = turns + 1
    /\ UNCHANGED <<window, csum, durable, dsum, triggered, crossings>>
    /\ UNCHANGED <<mono_vars, other_vars>>

BeginChat(p) ==
    BeginChatOf(p, Sessions, {Contents[(turns % Len(Contents)) + 1]}, MaxTurns)

\* the same with the requests of the concurrent specification: one session
BeginChatConc(p) == BeginChatOf(p, {"s1"}, {"a"}, MaxConcTurns)

\* ------------------------------------------------------------------------
\* Chat service: INSERT INTO chat_messages, PRIMARY KEY (session_id,
\* message_id); get_messages reads the partition oldest first
\* ------------------------------------------------------------------------
\* a table whose primary key is the session alone: every insert replaces
\* the row of the session
InsertRowSessionKey(rows, row) == <<row>>

InsertRow(rows, row) ==
    LET others == SelectSeq(rows, LAMBDA x : x.message_id # row.message_id)
        before == SelectSeq(others, LAMBDA x : x.message_id < row.message_id)
        after  == SelectSeq(others, LAMBDA x : x.message_id > row.message_id)
    IN  before \o <<row>> \o after

\* ------------------------------------------------------------------------
\* RAGService.store_message (RAG/rag_service.py), one action per await.
\* Every call of ServiceClient either returns the JSON of a 2xx response or
\* raises after its retries.
\* ------------------------------------------------------------------------
\* a store_message that only looks for an exception of the chat service
\* and not at "success" of its answer
AfterDurableIgnoringSuccess(outcome) ==
    IF outcome \in {"ok", "nack"} THEN "cache" ELSE "raise"

\* where store_message goes after the chat service answered
\* POST /chat/{session_id}/add-message: on, return success False, or raise
AfterDurable(outcome) ==
    IF outcome = "ok" THEN "cache"
    ELSE IF outcome = "nack" THEN "return_false"
    ELSE "raise"

\* await self.chat_api.post(f"/chat/{session_id}/add-message", ...)
StoreDurable(p) ==
    /\ pc[p] = "dur"
    /\ \E outcome \in {"ok", "nack", "raise"} :
         LET r    == [req[p] EXCEPT !.dur = outcome, !.degraded = FALSE]
             s    == r.session
             row  == [message_id |-> r.message_id, role |-> CurRole(r),
                      content |-> CurContent(r)]
             next == AfterDurable(outcome)
         IN  /\ durable' = IF outcome = "ok"
                           THEN [durable EXCEPT ![s] = InsertRow(@, row)]
                           ELSE durable
             /\ CASE next = "cache" ->
                        /\ pc' = [pc EXCEPT ![p] = "cache"]
                        /\ req' = [req EXCEPT ![p] = r]
                  [] next = "return_false" -> StoreReturned(p, r, "false")
                  [] OTHER -> StoreRaised(p, r)
    /\ UNCHANGED <<window, csum, dsum, nextId, turns, triggered, crossings>>
    /\ UNCHANGED <<mono_vars, other_vars>>

\* await self.cache_api.post(f"/cache/{session_id}/message", ...)
StoreCache(p) ==
    /\ pc[p] = "cache"
    /\ \E outcome \in {"ok", "nack", "raise"} :
         LET r0    == req[p]
             s     == r0.session
             needs == AddMessageNeedsSummarization(window[s], CurMessage(r0))
             r     == [r0 EXCEPT !.cache = outcome,
                                 !.appended = (outcome = "ok"),
                                 !.cyc = (outcome = "ok" /\ needs)]
         IN  /\ window' = IF outcome = "ok"
                          THEN [window EXCEPT ![s] = AddMessageList(@, CurMessage(r0))]
                          ELSE window
             /\ crossings' = IF outcome = "ok" /\ Len(window[s]) < MessageLimit
                                /\ Len(window'[s]) >= MessageLimit
                             THEN [crossings EXCEPT ![s] = @ + 1]
                             ELSE crossings
             /\ triggered' = IF outcome = "ok" /\ needs
                             THEN [triggered EXCEPT ![s] = @ + 1]
                             ELSE triggered
             /\ CASE outcome = "ok" /\ needs ->
                        /\ pc' = [pc EXCEPT ![p] = "getmsgs"]
                        /\ req' = [req EXCEPT ![p] = r]
                  [] outcome = "ok" /\ ~needs -> StoreReturned(p, r, "true")
                  [] outcome = "nack" -> StoreReturned(p, r, "false")
                  [] OTHER -> StoreRaised(p, r)
    /\ UNCHANGED <<csum, durable, dsum, nextId, turns>>
    /\ UNCHANGED <<mono_vars, other_vars>>

\* all_messages = await self.cache_api.get(f"/cache/{session_id}/messages")
StoreGetMessages(p) ==
    /\ pc[p] = "getmsgs"
    /\ \E outcome \in {"ok", "raise"} :
         LET r == req[p]
             s == r.session
         IN  IF outcome = "ok"
             THEN /\ pc' = [pc EXCEPT ![p] = "getsum"]
                  /\ req' = [req EXCEPT ![p] =
                         [r EXCEPT !.all_messages =
                              GetMessages(window[s], ApiGetMessagesDefaultLimit)]]
             ELSE StoreRaised(p, r)
    /\ UNCHANGED <<window, csum, durable, dsum, nextId, turns, triggered, crossings>>
    /\ UNCHANGED <<mono_vars, other_vars>>

\* current_summary = await self.cache_api.get(f"/cache/{session_id}/get-summary")
\* then: if current_summary.get("success") and len(all_messages) > 0
StoreGetSummary(p) ==
    /\ pc[p] = "getsum"
    /\ \E outcome \in {"ok", "raise"} :
         LET r == req[p]
             s == r.session
         IN  IF outcome = "ok"
             THEN IF Len(r.all_messages) > 0
                  THEN /\ pc' = [pc EXCEPT ![p] = "invoke"]
                       /\ req' = [req EXCEPT ![p] =
                              [r EXCEPT !.current_summary = csum[s]]]
                  ELSE StoreReturned(p, r, "true")
             ELSE StoreRaised(p, r)
    /\ UNCHANGED <<window, csum, durable, dsum, nextId, turns, triggered, crossings>>
    /\ UNCHANGED <<mono_vars, other_vars>>

\* summary_response = await self.summary_model.ainvoke(summary_input)
StoreInvokeSummaryModel(p) ==
    /\ pc[p] = "invoke"
    /\ \E outcome \in {"ok", "raise"} :
         LET r == req[p]
         IN  IF outcome = "ok"
             THEN /\ pc' = [pc EXCEPT ![p] = "updsum"]
                  /\ req' = [req EXCEPT ![p] =
                         [r EXCEPT !.new_summary =
                              SummaryModel(OrEmpty(r.current_summary),
                                           FormatConversationText(r.all_messages))]]
             ELSE StoreRaised(p, r)
    /\ UNCHANGED <<window, csum, durable, dsum, nextId, turns, triggered, crossings>>
    /\ UNCHANGED <<mono_vars, other_vars>>

\* await self.cache_api.post(f"/cache/{session_id}/update-summary", ...)
\* RedisService.update_summary: SET session:{id}:summary
StoreUpdateSummary(p) ==
    /\ pc[p] = "updsum"
    /\ \E outcome \in {"ok", "raise"} :
         LET r == req[p]
             s == r.session
         IN  IF outcome = "ok"
             THEN /\ csum' = [csum EXCEPT ![s] = Some(r.new_summary)]
                  /\ pc' = [pc EXCEPT ![p] = "trim"]
                  /\ req' = [req EXCEPT ![p] = [r EXCEPT !.base = r.current_summary]]
             ELSE /\ csum' = csum
                  /\ StoreRaised(p, r)
    /\ UNCHANGED <<window, durable, dsum, nextId, turns, triggered, crossings>>
    /\ UNCHANGED <<mono_vars, other_vars>>

\* await self.cache_api.delete(f"/cache/{session_id}/trim"); the two
\* responses are only logged and store_message returns success True
StoreTrim(p) ==
    /\ pc[p] = "trim"
    /\ \E outcome \in {"ok", "raise"} :
         LET r == req[p]
             s == r.session
         IN  IF outcome = "ok"
             THEN /\ window' = [window EXCEPT ![s] =
                                   TrimCacheList(@, StoreMessageTrimKeepLast)]
                  /\ StoreReturned(p, [r EXCEPT !.completed = TRUE], "true")
             ELSE /\ window' = window
                  /\ StoreRaised(p, r)
    /\ UNCHANGED <<csum, durable, dsum, nextId, turns, triggered, crossings>>
    /\ UNCHANGED <<mono_vars, other_vars>>

\* ------------------------------------------------------------------------
\* RAGService.chat (RAG/rag_service.py), one action per await
\* ------------------------------------------------------------------------
\* _format_conversation(messages, text=False): HumanMessage / AIMessage,
\* any other role is dropped
FormatConversation(messages) ==
    LET kept == SelectSeq(messages, LAMBDA m : m.role \in {"user", "assistant"})
    IN  [i \in 1..Len(kept) |->
            [type |-> IF kept[i].role = "user" THEN "human" ELSE "ai",
             content |-> kept[i].content]]

\* a chat() whose reads of the cache let the exception through
AfterCacheReadRaising(outcome) ==
    IF outcome = "raise" THEN "raise" ELSE "continue"

\* where chat() goes after a read of the cache service: the reads sit in
\* their own try / except Exception, which logs and puts [] or {} in place
AfterCacheRead(outcome) == "continue"

\* history_data = await self.cache_api.get(f"/cache/{session_id}/messages")
\* a failure is logged and history_data = []
ChatGetHistory(p) ==
    /\ pc[p] = "agent"
    /\ \E outcome \in {"ok", "raise"} :
         LET r == [req[p] EXCEPT !.hist = outcome]
             s == r.session
         IN  IF AfterCacheRead(outcome) = "continue"
             THEN /\ req' = [req EXCEPT ![p] =
                         [r EXCEPT !.history_data =
                              IF outcome = "ok"
                              THEN GetMessages(window[s], ApiGetMessagesDefaultLimit)
                              ELSE <<>>]]
                  /\ pc' = [pc EXCEPT ![p] = "chat_sum"]
             ELSE /\ req' = [req EXCEPT ![p] = [r EXCEPT !.result = "error"]]
                  /\ pc' = [pc EXCEPT ![p] = "done"]
    /\ UNCHANGED <<window, csum, durable, dsum, nextId, turns, triggered, crossings>>
    /\ UNCHANGED <<mono_vars, other_vars>>

\* summary_data = await self.cache_api.get(f"/cache/{session_id}/get-summary")
\* a failure is logged and summary_data = {}
ChatGetSummary(p) ==
    /\ pc[p] = "chat_sum"
    /\ \E outcome \in {"ok", "raise"} :
         LET r == [req[p] EXCEPT !.sumr = outcome]
             s == r.session
         IN  IF AfterCacheRead(outcome) = "continue"
             THEN /\ req' = [req EXCEPT ![p] =
                         [r EXCEPT !.summary_data =
                              IF outcome = "ok" THEN csum[s] ELSE None]]
                  /\ pc' = [pc EXCEPT ![p] = "chat_invoke"]
             ELSE /\ req' = [req EXCEPT ![p] = [r EXCEPT !.result = "error"]]
                  /\ pc' = [pc EXCEPT ![p] = "done"]
    /\ UNCHANGED <<window, csum, durable, dsum, nextId, turns, triggered, crossings>>
    /\ UNCHANGED <<mono_vars, other_vars>>

\* response = await self.agent.ainvoke({"messages": messages_payload});
\* back in the endpoint: uuid1 for the assistant message, store_message
ChatInvokeAgent(p) ==
    /\ pc[p] = "chat_invoke"
    /\ \E outcome \in {"ok", "raise"}, answer \in Answers :
         LET r == req[p]
             payload == <<[type |-> "system", content |-> "system"]>>
                        \o FormatConversation(r.history_data)
                        \o <<[type |-> "human", content |-> r.content]>>
         IN  IF outcome = "ok"
             THEN /\ pc' = [pc EXCEPT ![p] = "dur"]
                  /\ req' = [req EXCEPT ![p] =
                         [r EXCEPT !.messages_payload = payload,
                                   !.history_data = <<>>,
                                   !.summary_data = None,
                                   !.phase = "assistant",
                                   !.response = answer,
                                   !.degraded = (r.hist = "raise" \/ r.sumr = "raise"),
                                   !.hist = "none", !.sumr = "none",
                                   !.message_id = nextId,
                                   !.stores = 2, !.agent_calls = 1,
                                   !.dur = "none", !.cache = "none",
                                   !.appended = FALSE,
                                   !.cyc = FALSE, !.completed = FALSE,
                                   !.base = None]]
                  /\ nextId' = nextId + 1
             ELSE /\ pc' = [pc EXCEPT ![p] = "done"]
                  /\ req' = [req EXCEPT ![p] =
                         [r EXCEPT !.messages_payload = payload,
                                   !.history_data = <<>>,
                                   !.summary_data = None,
                                   !.hist = "none", !.sumr = "none",
                                   !.agent_calls = 1,
                                   !.result = "error"]]
                  /\ nextId' = nextId
    /\ UNCHANGED <<window, csum, durable, dsum, turns, triggered, crossings>>
    /\ UNCHANGED <<mono_vars, other_vars>>

\* if user_message.is_first_message: await rag.set_session_title(...);
\* return AssistantMessageResponseModel(success=True, ...)
FinishChat(p) ==
    /\ pc[p] = "title"
    /\ \E is_first_message \in BOOLEAN, outcome \in {"ok", "raise"} :
         req' = [req EXCEPT ![p].result =
                    IF is_first_message /\ outcome = "raise" THEN "error" ELSE "ok"]
    /\ pc' = [pc EXCEPT ![p] = "done"]
    /\ UNCHANGED <<window, csum, durable, dsum, nextId, turns, triggered, crossings>>
    /\ UNCHANGED <<mono_vars, other_vars>>

\* ------------------------------------------------------------------------
\* The monolith: RedisCache (cache_manager.py)
\* ------------------------------------------------------------------------
\* a default of keep_last that is the limit itself
TrimKeepLastLimit == MessageLimit

\* keep_last: int = CACHE_MESSAGE_LIMIT // 2
TrimKeepLastDefault == MessageLimit \div 2

\* add_message: rpush, self.current_count += 1, and at the limit the count
\* is reset and True returned; an exception of rpush returns False
RedisCacheAddList(list, role, content, push_ok) ==
    IF push_ok THEN RPush(list, [role |-> role, content |-> content]) ELSE list

RedisCacheAddCount(count, push_ok) ==
    IF ~push_ok THEN count
    ELSE IF count + 1 >= MessageLimit THEN 0 ELSE count + 1

RedisCacheAddReturn(count, push_ok) == push_ok /\ count + 1 >= MessageLimit

\* get_messages(session_id, limit): "if limit:" ; an exception returns []
RedisCacheGetMessages(list, limit, ok) ==
    IF ~ok THEN <<>>
    ELSE IF limit # NoneInt /\ limit[1] # 0 THEN LRange(list, 0 - limit[1], -1)
    ELSE LRange(list, 0, -1)

\* trim_cache(session_id, keep_last): ltrim(key, -keep_last, -1)
RedisCacheTrim(list, keep_last, ok) ==
    IF ok THEN LTrim(list, 0 - keep_last, -1) ELSE list

\* ------------------------------------------------------------------------
\* SummarizationService (summarization_service.py)
\* ------------------------------------------------------------------------
\* _format_conversation: f"{role.capitalize()}: {content}" per message
Capitalize(role) ==
    IF role = "user" THEN "User"
    ELSE IF role = "assistant" THEN "Assistant" ELSE role

SummarizerFormatConversation(messages) ==
    [i \in 1..Len(messages) |-> <<Capitalize(messages[i].role), messages[i].content>>]

\* the text "Error generating summary"
ErrorGeneratingSummary == << <<"Error generating summary", 0>> >>

\* summarize_async(messages, previous_summary): the model's text, or on an
\* exception  previous_summary or "Error generating summary"
SummarizeAsync(messages, previous_summary, gen_ok) ==
    IF gen_ok
    THEN SummaryModel(previous_summary, SummarizerFormatConversation(messages))
    ELSE IF previous_summary # <<>> THEN previous_summary
    ELSE ErrorGeneratingSummary

\* trigger_summarization_task: summarize, update_session_summary in
\* Cassandra, update_summary in Redis, trim_cache(session_id); every store
\* call reports a failure by its return value, which is not looked at.
\* list, summary, row, db_count: the stores when the task runs
TriggerSummarizationTask(messages, previous_summary, list, summary, row, db_count, f) ==
    LET new_summary == SummarizeAsync(messages, previous_summary, f.gen)
    IN  [cass_summary |->
             IF f.dbsum
             THEN [has |-> TRUE, text |-> new_summary, message_count |-> db_count]
             ELSE row,
         rc_summary |-> IF f.csum THEN Some(new_summary) ELSE summary,
         rc_messages |-> RedisCacheTrim(list, TrimKeepLastDefault, f.trim),
         folded |-> IF f.gen /\ (f.csum \/ f.dbsum)
                    THEN {messages[i].content : i \in 1..Len(messages)}
                    ELSE {},
         cycle |-> [ran |-> TRUE, failed |-> ~f.gen,
                    pre_summary |-> summary, pre_messages |-> list,
                    batch |-> messages,
                    previous |-> previous_summary,
                    new_summary |-> new_summary]]

\* outcomes of the store and model calls of a step: TRUE when the call
\* succeeds
TaskOutcomes == [gen : BOOLEAN, dbsum : BOOLEAN, csum : BOOLEAN, trim : BOOLEAN]
ReadOutcomes == [getm : BOOLEAN, gets : BOOLEAN]

\* ------------------------------------------------------------------------
\* RAGChatbot (rag.py)
\* ------------------------------------------------------------------------
\* _store_message(role, content), with _trigger_summarization when
\* add_message returned True.  db_ok, push_ok: whether the INSERT and the
\* RPUSH succeed; loop.is_running() decides between create_task and
\* run_until_complete
\* reads, task_outcomes: what the store and model calls of the cycle may
\* meet; deferred: the values loop.is_running() may have
StoreMessageOf(role, content, db_ok, push_ok, reads, task_outcomes, deferred) ==
    LET rows1  == IF db_ok
                  THEN Append(cass_messages, [role |-> role, content |-> content])
                  ELSE cass_messages
        list1  == RedisCacheAddList(rc_messages, role, content, push_ok)
        should_summarize == RedisCacheAddReturn(current_count, push_ok)
    IN  /\ cass_messages' = rows1
        /\ current_count' = RedisCacheAddCount(current_count, push_ok)
        /\ mcached' = IF push_ok THEN mcached \cup {content} ELSE mcached
        /\ mstores' = mstores + 1
        /\ IF ~should_summarize
           THEN /\ rc_messages' = list1
                /\ UNCHANGED <<rc_summary, cass_summary, tasks, mfolded>>
                /\ mcycle' = NoCycle
           ELSE \E r \in reads :
                  LET messages == RedisCacheGetMessages(list1, IntV(MessageLimit), r.getm)
                      previous == IF r.gets THEN OrEmpty(rc_summary) ELSE <<>>
                  IN  \/ /\ TRUE \in deferred
                         /\ rc_messages' = list1
                         /\ tasks' = tasks \cup
                                {[messages |-> messages, previous_summary |-> previous]}
                         /\ UNCHANGED <<rc_summary, cass_summary, mfolded>>
                         /\ mcycle' = NoCycle
                      \/ \E f \in task_outcomes :
                           LET t == TriggerSummarizationTask(messages, previous, list1,
                                        rc_summary, cass_summary, Len(rows1), f)
                           IN  /\ FALSE \in deferred
                               /\ cass_summary' = t.cass_summary
                               /\ rc_summary' = t.rc_summary
                               /\ rc_messages' = t.rc_messages
                               /\ mfolded' = mfolded \cup t.folded
                               /\ mcycle' = t.cycle
                               /\ UNCHANGED tasks

StoreMessage(role, content, db_ok, push_ok) ==
    StoreMessageOf(role, content, db_ok, push_ok, ReadOutcomes, TaskOutcomes, BOOLEAN)

\* chat(user_input): self._store_message('user', user_input)
MonoChatUser ==
    /\ mphase = "idle"
    /\ mstores < MaxStores
    /\ \E db_ok \in BOOLEAN, push_ok \in BOOLEAN :
           StoreMessage("user", mstores + 1, db_ok, push_ok)
    /\ mphase' = "answer"
    /\ UNCHANGED <<micro_vars, other_vars>>

\* chat(user_input): the agent answers and
\* self._store_message('assistant', output)
MonoChatAnswer ==
    /\ mphase = "answer"
    /\ mstores < MaxStores
    /\ \E db_ok \in BOOLEAN, push_ok \in BOOLEAN :
           StoreMessage("assistant", mstores + 1, db_ok, push_ok)
    /\ mphase' = "idle"
    /\ UNCHANGED <<micro_vars, other_vars>>

\* chat(user_input): agent_executor.invoke raises, nothing more is stored
MonoChatAgentFails ==
    /\ mphase = "answer"
    /\ mphase' = "idle"
    /\ mcycle' = NoCycle
    /\ UNCHANGED <<rc_messages, rc_summary, current_count, cass_messages,
                   cass_summary, tasks, mstores, mcached, mfolded>>
    /\ UNCHANGED <<micro_vars, other_vars>>

\* a task made by asyncio.create_task runs once chat() has returned
MonoRunTask ==
    /\ mphase = "idle"
    /\ \E task \in tasks, f \in TaskOutcomes :
         LET t == TriggerSummarizationTask(task.messages, task.previous_summary,
                      rc_messages, rc_summary, cass_summary, Len(cass_messages), f)
         IN  /\ cass_summary' = t.cass_summary
             /\ rc_summary' = t.rc_summary
             /\ rc_messages' = t.rc_messages
             /\ mfolded' = mfolded \cup t.folded
             /\ mcycle' = t.cycle
             /\ tasks' = tasks \ {task}
    /\ UNCHANGED <<current_count, cass_messages, mphase, mstores, mcached>>
    /\ UNCHANGED <<micro_vars, other_vars>>

NextMono == MonoChatUser \/ MonoChatAnswer \/ MonoChatAgentFails \/ MonoRunTask

SpecMono == Init /\ [][NextMono]_vars

\* the RAGChatbot used synchronously (no event loop is running when chat()
\* is called, so the cycle runs inside _store_message) with stores that do
\* not fail; the summary model may
SyncReads == {r \in ReadOutcomes : r.getm /\ r.gets}
SyncTaskOutcomes == {f \in TaskOutcomes : f.dbsum /\ f.csum /\ f.trim}

StoreMessageSync(role, content) ==
    StoreMessageOf(role, content, TRUE, TRUE, SyncReads, SyncTaskOutcomes, {FALSE})

SyncChatUser ==
    /\ mphase = "idle"
    /\ mstores < MaxSyncStores
    /\ StoreMessageSync("user", mstores + 1)
    /\ mphase' = "answer"
    /\ UNCHANGED <<micro_vars, other_vars>>

SyncChatAnswer ==
    /\ mphase = "answer"
    /\ mstores < MaxSyncStores
    /\ StoreMessageSync("assistant", mstores + 1)
    /\ mphase' = "idle"
    /\ UNCHANGED <<micro_vars, other_vars>>

NextSync == SyncChatUser \/ SyncChatAnswer \/ MonoChatAgentFails

SpecSync == Init /\ [][NextSync]_vars

\* ------------------------------------------------------------------------
\* Specifications
\* ------------------------------------------------------------------------
Step(p) ==
    \/ StoreDurable(p)
    \/ StoreCache(p)
    \/ StoreGetMessages(p)
    \/ StoreGetSummary(p)
    \/ StoreInvokeSummaryModel(p)
    \/ StoreUpdateSummary(p)
    \/ StoreTrim(p)
    \/ ChatGetHistory(p)
    \/ ChatGetSummary(p)
    \/ ChatInvokeAgent(p)
    \/ FinishChat(p)

\* one client that sends its requests one after the other
Next == BeginChat(1) \/ Step(1)

Spec == Init /\ [][Next]_vars

\* no call of the request in flight has failed: no exception, no answer
\* with success false, no degraded read
Unfailed ==
    /\ req[1].result # "error"
    /\ req[1].ret1 \in {"none", "true"}
    /\ req[1].ret2 \in {"none", "true"}
    /\ req[1].hist # "raise"
    /\ req[1].sumr # "raise"

\* the chat requests of the client whose calls all succeed
BeginChatSeq(p) ==
    BeginChatOf(p, Sessions, {Contents[(turns % Len(Contents)) + 1]}, MaxSeqTurns)

\* one client that sends its requests one after the other, every call of
\* every request succeeding
NextSeq ==
    \/ BeginChatSeq(1) /\ Unfailed'
    \/ StoreDurable(1) /\ Unfailed'
    \/ StoreCache(1) /\ Unfailed'
    \/ StoreGetMessages(1) /\ Unfailed'
    \/ StoreGetSummary(1) /\ Unfailed'
    \/ StoreInvokeSummaryModel(1) /\ Unfailed'
    \/ StoreUpdateSummary(1) /\ Unfailed'
    \/ StoreTrim(1) /\ Unfailed'
    \/ ChatGetHistory(1) /\ Unfailed'
    \/ ChatGetSummary(1) /\ Unfailed'
    \/ ChatInvokeAgent(1) /\ Unfailed'
    \/ FinishChat(1) /\ Unfailed'

SpecSeq == Init /\ [][NextSeq]_vars

\* requests of several clients in flight at the same time
NextConc == \E p \in Procs : BeginChatConc(p) \/ Step(p)

SpecConc == Init /\ [][NextConc]_vars

\* ------------------------------------------------------------------------
\* Reading a session back: GET /rag/{session_id}/get-session-messages over
\* RAGService.get_session_messages, with the requests that bring a session
\* into the state it is read in
\* ------------------------------------------------------------------------
Reverse(seq) == [i \in 1..Len(seq) |-> seq[Len(seq) + 1 - i]]

\* SELECT ... FROM chat_messages WHERE session_id = ? under
\* CLUSTERING ORDER BY (message_id DESC): newest first
SelectMessages(rows) == Reverse(rows)

\* a get_messages without messages.reverse()
ChatGetMessagesNotReversed(rows) == SelectMessages(rows)

\* ChatService.get_messages: the rows of the SELECT, reversed
ChatGetMessages(rows) == Reverse(SelectMessages(rows))

\* the summary text a client of the chat service stores
ClientSummaryText == << <<"summary", "d">> >>

\* GET /cache/{session_id}/session-exists: the endpoint calls
\* cache.check_session_existence(session_id), a method RedisService does not
\* define; the AttributeError is answered as HTTP 500, which ServiceClient
\* raises once its retries are used up
SessionExistsResponse(list, summary) == "raise"

\* POST /chat/{session_id}/insert-summary sent by a client of the chat
\* service (RAGService never sends it): ChatService.insert_summary
InsertSummary(p) ==
    /\ pc[p] \in {"idle", "done"}
    /\ \E s \in Sessions, outcome \in {"ok", "raise"} :
         dsum' = IF outcome = "ok"
                 THEN [dsum EXCEPT ![s] = Some(ClientSummaryText)]
                 ELSE dsum
    /\ pc' = [pc EXCEPT ![p] = "idle"]
    /\ req' = [req EXCEPT ![p] = IdleReq]
    /\ UNCHANGED <<window, csum, durable, nextId, turns, triggered, crossings>>
    /\ UNCHANGED <<mono_vars, other_vars>>

\* DELETE /cache/{session_id}/clear (the call of clear_all_user_caches at
\* logout): RedisService.clear_session
ClearCache(p) ==
    /\ pc[p] \in {"idle", "done"}
    /\ \E s \in Sessions, outcome \in ClearOutcomes :
         /\ window' = [window EXCEPT ![s] = ClearSessionList(@, outcome)]
         /\ csum' = [csum EXCEPT ![s] = ClearSessionSummary(@, outcome)]
    /\ pc' = [pc EXCEPT ![p] = "idle"]
    /\ req' = [req EXCEPT ![p] = IdleReq]
    /\ UNCHANGED <<durable, dsum, nextId, turns, triggered, crossings>>
    /\ UNCHANGED <<mono_vars, other_vars>>

\* the request arrives and get_session_messages is entered
BeginGetSessionMessages(p) ==
    /\ pc[p] \in {"idle", "done"}
    /\ \E s \in Sessions :
         req' = [req EXCEPT ![p] =
             [IdleReq EXCEPT !.op = "read", !.session = s,
                             !.win_before = window[s], !.sum_before = csum[s],
                             !.cold = /\ window[s] = <<>>
                                      /\ ~csum[s].has
                                      /\ durable[s] # <<>>
                                      /\ dsum[s].has]]
    /\ pc' = [pc EXCEPT ![p] = "gsm_msgs"]
    /\ UNCHANGED <<window, csum, durable, dsum, nextId, turns, triggered, crossings>>
    /\ UNCHANGED <<mono_vars, other_vars>>

\* messages_response = await self.chat_api.get(f"/chat/{session_id}/get-messages")
\* an empty transcript is returned at once, a failure is re-raised
GsmGetMessages(p) ==
    /\ pc[p] = "gsm_msgs"
    /\ \E outcome \in {"ok", "raise"} :
         LET r == req[p]
             messages_response == ChatGetMessages(durable[r.session])
         IN  IF outcome = "raise"
             THEN /\ pc' = [pc EXCEPT ![p] = "done"]
                  /\ req' = [req EXCEPT ![p] = [r EXCEPT !.result = "error"]]
             ELSE IF Len(messages_response) > 0
             THEN /\ pc' = [pc EXCEPT ![p] = "gsm_restore"]
                  /\ req' = [req EXCEPT ![p] = [r EXCEPT !.returned = messages_response]]
             ELSE /\ pc' = [pc EXCEPT ![p] = "done"]
                  /\ req' = [req EXCEPT ![p] =
                         [r EXCEPT !.returned = messages_response, !.result = "ok"]]
    /\ UNCHANGED <<window, csum, durable, dsum, nextId, turns, triggered, crossings>>
    /\ UNCHANGED <<mono_vars, other_vars>>

\* the restoration step: session_exist = await self.cache_api.get(
\* f"/cache/{session_id}/session-exists"); when the session is not in the
\* cache, summary = await self.chat_api.get(f"/chat/{session_id}/get-summary")
\* (404 without a row) and, for a non-empty summary, await self.cache_api.post(
\* f"/cache/{session_id}/update-summary").  Every exception of the step is
\* logged as a warning and the transcript is returned.
GsmRestore(p) ==
    /\ pc[p] = "gsm_restore"
    /\ \E got \in {"ok", "raise"}, posted \in {"ok", "raise"} :
         LET r == req[p]
             s == r.session
             session_exist == SessionExistsResponse(window[s], csum[s])
             restore == /\ session_exist = "absent"
                        /\ got = "ok"
                        /\ dsum[s].has
                        /\ dsum[s].text # <<>>
         IN  /\ csum' = IF restore /\ posted = "ok"
                        THEN [csum EXCEPT ![s] = Some(dsum[s].text)]
                        ELSE csum
             /\ req' = [req EXCEPT ![p] =
                    [r EXCEPT !.cache_calls = IF restore THEN 2 ELSE 1,
                              !.result = "ok"]]
    /\ pc' = [pc EXCEPT ![p] = "done"]
    /\ UNCHANGED <<window, durable, dsum, nextId, turns, triggered, crossings>>
    /\ UNCHANGED <<mono_vars, other_vars>>

\* the chat requests of the specification that reads sessions back
BeginChatRead(p) ==
    BeginChatOf(p, Sessions, {Contents[(turns % Len(Contents)) + 1]}, MaxReadTurns)

NextRead ==
    \/ BeginChatRead(1)
    \/ Step(1)
    \/ InsertSummary(1)
    \/ ClearCache(1)
    \/ BeginGetSessionMessages(1)
    \/ GsmGetMessages(1)
    \/ GsmRestore(1)

SpecRead == Init /\ [][NextRead]_vars

\* ------------------------------------------------------------------------
\* Deleting a session: DELETE /rag/{session_id}/delete-session over
\* RAGService.delete_session, one action per await
\* ------------------------------------------------------------------------
\* what a service answers to a DELETE: a 2xx body with success true, a 2xx
\* body with success false, or an error after the first or after the second
\* of its two deletes failed
DeleteAnswers == {"ok", "nack", "raise_first", "raise_second"}

\* ChatService.delete_session: DELETE of the rows of chat_messages, then
\* DELETE of the row of session_summaries
ChatDeleteRows(rows, outcome) ==
    IF outcome \in {"ok", "raise_second"} THEN <<>> ELSE rows

ChatDeleteSummary(row, outcome) ==
    IF outcome = "ok" THEN None ELSE row

\* UserService.delete_session: DELETE FROM user_sessions; "DELETE 0" is
\* answered as HTTP 400
UserDeleteAnswer(sessions, s, outcome) ==
    IF outcome = "ok" /\ s \notin sessions THEN "raise_first" ELSE outcome

\* RAGService.create_session: uuid4, POST /user/add-session
CreateSession(p) ==
    /\ pc[p] \in {"idle", "done"}
    /\ \E s \in Sessions \ directory, outcome \in {"ok", "raise"} :
         directory' = IF outcome = "ok" THEN directory \cup {s} ELSE directory
    /\ pc' = [pc EXCEPT ![p] = "idle"]
    /\ req' = [req EXCEPT ![p] = IdleReq]
    /\ UNCHANGED <<window, csum, durable, dsum, nextId, turns, triggered, crossings>>
    /\ UNCHANGED <<mono_vars, cache_vars, client_vars>>

\* the request arrives and delete_session is entered
BeginDeleteSession(p) ==
    /\ pc[p] \in {"idle", "done"}
    /\ \E s \in Sessions :
         req' = [req EXCEPT ![p] = [IdleReq EXCEPT !.op = "delete", !.session = s]]
    /\ pc' = [pc EXCEPT ![p] = "del_cache"]
    /\ UNCHANGED <<window, csum, durable, dsum, nextId, turns, triggered, crossings>>
    /\ UNCHANGED <<mono_vars, other_vars>>

\* an await of delete_session is over: an exception is re-raised, any 2xx
\* answer (its success is only logged) leads on to the next await
DeleteGoesOn(p, r, outcome, next) ==
    IF outcome \in {"ok", "nack"}
    THEN /\ pc' = [pc EXCEPT ![p] = next]
         /\ req' = [req EXCEPT ![p] =
                [r EXCEPT !.result = IF next = "done" THEN "ok" ELSE r.result]]
    ELSE /\ pc' = [pc EXCEPT ![p] = "done"]
         /\ req' = [req EXCEPT ![p] = [r EXCEPT !.result = "error"]]

\* cache_response = await self.cache_api.delete(f"/cache/{session_id}/clear")
DeleteInCache(p) ==
    /\ pc[p] = "del_cache"
    /\ \E outcome \in DeleteAnswers :
         LET r == [req[p] EXCEPT !.del_cache = outcome]
             s == r.session
             o == IF outcome = "nack" THEN "raise_first" ELSE outcome
         IN  /\ window' = [window EXCEPT ![s] = ClearSessionList(@, o)]
             /\ csum' = [csum EXCEPT ![s] = ClearSessionSummary(@, o)]
             /\ DeleteGoesOn(p, r, outcome, "del_chat")
    /\ UNCHANGED <<durable, dsum, nextId, turns, triggered, crossings>>
    /\ UNCHANGED <<mono_vars, other_vars>>

\* chat_response = await self.chat_api.delete(f"/chat/{session_id}/delete")
DeleteInChat(p) ==
    /\ pc[p] = "del_chat"
    /\ \E outcome \in DeleteAnswers :
         LET r == [req[p] EXCEPT !.del_chat = outcome]
             s == r.session
         IN  /\ durable' = [durable EXCEPT ![s] = ChatDeleteRows(@, outcome)]
             /\ dsum' = [dsum EXCEPT ![s] = ChatDeleteSummary(@, outcome)]
             /\ DeleteGoesOn(p, r, outcome, "del_user")
    /\ UNCHANGED <<window, csum, nextId, turns, triggered, crossings>>
    /\ UNCHANGED <<mono_vars, other_vars>>

\* response = await self.user_api.delete(f"/user/delete-session", ...);
\* return {"success": True, ...}
DeleteInUser(p) ==
    /\ pc[p] = "del_user"
    /\ \E outcome \in {"ok", "nack", "raise_first"} :
         LET s == req[p].session
             answer == UserDeleteAnswer(directory, s, outcome)
             r == [req[p] EXCEPT !.del_user = answer]
         IN  /\ directory' = IF answer = "ok" THEN directory \ {s} ELSE directory
             /\ DeleteGoesOn(p, r, answer, "done")
    /\ UNCHANGED <<window, csum, durable, dsum, nextId, turns, triggered, crossings>>
    /\ UNCHANGED <<mono_vars, cache_vars, client_vars>>

\* the chat requests of the specification that deletes sessions
BeginChatDelete(p) ==
    BeginChatOf(p, Sessions, {Contents[(turns % Len(Contents)) + 1]}, MaxDeleteTurns)

NextDelete ==
    \/ CreateSession(1)
    \/ BeginChatDelete(1)
    \/ Step(1)
    \/ InsertSummary(1)
    \/ BeginDeleteSession(1)
    \/ DeleteInCache(1)
    \/ DeleteInChat(1)
    \/ DeleteInUser(1)

SpecDelete == Init /\ [][NextDelete]_vars

\* ------------------------------------------------------------------------
\* ServiceClient._request (RAG/client.py) under the two POSTs of
\* store_message, one action per attempt of its loop
\* ------------------------------------------------------------------------
\* what an attempt meets: a 2xx answer with success true or false, an
\* httpx.HTTPError (error status, timeout, connection error), or a 2xx
\* answer whose body response.json() cannot decode
AttemptOutcomes == {"ok", "nack", "http_error", "bad_json"}

\* for attempt in range(max_retries): whether the body runs at all
LoopEnters(max) == max > 0

\* one iteration: return response.json(); an exception that is not an
\* httpx.HTTPError leaves the loop; an httpx.HTTPError is re-raised when
\* attempt == max_retries - 1 and followed by asyncio.sleep otherwise
AfterAttempt(attempt, max, outcome) ==
    IF outcome \in {"ok", "nack"} THEN "return"
    ELSE IF outcome = "bad_json" THEN "raise"
    ELSE IF attempt = max - 1 THEN "raise"
    ELSE "sleep"

\* the _request call an attempt belongs to: the one in progress, or a new
\* one that reads max_retries and starts its loop
CurrentRequest(target, s, list) ==
    IF rq.state = "loop" /\ rq.target = target THEN rq
    ELSE [NoRequest EXCEPT !.target = target, !.session = s, !.max = max_retries,
                           !.state = "loop", !.before = Len(list)]

\* the record of the call after an attempt
Attempted(cur, outcome) ==
    LET next == AfterAttempt(cur.attempt, cur.max, outcome)
    IN  [cur EXCEPT !.made = @ + 1,
                    !.outcomes = Append(@, outcome),
                    !.got = outcome \in {"ok", "nack"},
                    !.attempt = IF next = "sleep" THEN @ + 1 ELSE @,
                    !.state = IF next = "return" THEN "returned"
                              ELSE IF next = "raise" THEN "raised" ELSE "loop"]

\* the loop body never ran: the function ends without a return statement
\* and the caller gets None
FellThrough(cur) == [cur EXCEPT !.state = "returned", !.got = FALSE]

\* whether the server has carried out the request of an attempt: always
\* for a decoded or undecodable 2xx answer with success true, never for
\* success false, either way when the attempt ended in an httpx.HTTPError
ProcessedChoices(outcome) ==
    IF outcome \in {"ok", "bad_json"} THEN {TRUE}
    ELSE IF outcome = "nack" THEN {FALSE}
    ELSE BOOLEAN

\* RAGService.initialize builds the ServiceClients from the configuration
ConfigureClient(p) ==
    /\ pc[p] \in {"idle", "done"}
    /\ \E m \in 0..MaxRetries : m # max_retries /\ max_retries' = m
    /\ UNCHANGED <<micro_vars, mono_vars, directory, cache_vars, rq>>

\* chat_response = await self.chat_api.post(f"/chat/{session_id}/add-message")
\* attempt by attempt; None from _request makes chat_response.get raise
RetryDurable(p) ==
    /\ pc[p] = "dur"
    /\ LET r0  == req[p]
           s   == r0.session
           cur == CurrentRequest("chat", s, durable[s])
           row == [message_id |-> r0.message_id, role |-> CurRole(r0),
                   content |-> CurContent(r0)]
       IN  IF ~LoopEnters(cur.max)
           THEN /\ rq' = FellThrough(cur)
                /\ durable' = durable
                /\ StoreRaised(p, [r0 EXCEPT !.dur = "no_response"])
           ELSE \E outcome \in AttemptOutcomes :
                \E processed \in ProcessedChoices(outcome) :
                  LET after == Attempted(cur, outcome)
                      final == IF outcome \in {"ok", "nack"} THEN outcome ELSE "raise"
                      r     == [r0 EXCEPT !.dur = final, !.degraded = FALSE]
                  IN  /\ rq' = after
                      /\ durable' = IF processed
                                     THEN [durable EXCEPT ![s] = InsertRow(@, row)]
                                     ELSE durable
                      /\ CASE after.state = "loop" -> UNCHANGED <<pc, req>>
                           [] after.state = "raised" -> StoreRaised(p, r)
                           [] AfterDurable(final) = "cache" ->
                                  /\ pc' = [pc EXCEPT ![p] = "cache"]
                                  /\ req' = [req EXCEPT ![p] = r]
                           [] OTHER -> StoreReturned(p, r, "false")
    /\ UNCHANGED <<window, csum, dsum, nextId, turns, triggered, crossings>>
    /\ UNCHANGED <<mono_vars, directory, cache_vars, max_retries>>

\* cache_response = await self.cache_api.post(f"/cache/{session_id}/message")
\* attempt by attempt
RetryCache(p) ==
    /\ pc[p] = "cache"
    /\ LET r0  == req[p]
           s   == r0.session
           cur == CurrentRequest("cache", s, window[s])
       IN  IF ~LoopEnters(cur.max)
           THEN /\ rq' = FellThrough(cur)
                /\ UNCHANGED <<window, crossings, triggered>>
                /\ StoreRaised(p, [r0 EXCEPT !.cache = "no_response"])
           ELSE \E outcome \in AttemptOutcomes :
                \E processed \in ProcessedChoices(outcome) :
                  LET after == Attempted(cur, outcome)
                      final == IF outcome \in {"ok", "nack"} THEN outcome ELSE "raise"
                      needs == AddMessageNeedsSummarization(window[s], CurMessage(r0))
                      r     == [r0 EXCEPT !.cache = final,
                                          !.appended = (final = "ok"),
                                          !.cyc = (final = "ok" /\ needs)]
                  IN  /\ rq' = after
                      /\ window' = IF processed
                                    THEN [window EXCEPT ![s] =
                                             AddMessageList(@, CurMessage(r0))]
                                    ELSE window
                      /\ crossings' = IF processed /\ Len(window[s]) < MessageLimit
                                          /\ Len(window'[s]) >= MessageLimit
                                       THEN [crossings EXCEPT ![s] = @ + 1]
                                       ELSE crossings
                      /\ triggered' = IF final = "ok" /\ needs
                                       THEN [triggered EXCEPT ![s] = @ + 1]
                                       ELSE triggered
                      /\ CASE after.state = "loop" -> UNCHANGED <<pc, req>>
                           [] after.state = "raised" -> StoreRaised(p, r)
                           [] final = "ok" /\ needs ->
                                  /\ pc' = [pc EXCEPT ![p] = "getmsgs"]
                                  /\ req' = [req EXCEPT ![p] = r]
                           [] final = "ok" /\ ~needs -> StoreReturned(p, r, "true")
                           [] OTHER -> StoreReturned(p, r, "false")
    /\ UNCHANGED <<csum, durable, dsum, nextId, turns>>
    /\ UNCHANGED <<mono_vars, directory, cache_vars, max_retries>>

\* the chat requests of the specification that tells the attempts apart
BeginChatRetry(p) ==
    BeginChatOf(p, Sessions, {Contents[(turns % Len(Contents)) + 1]}, MaxRetryTurns)

NextRetry ==
    \/ ConfigureClient(1)
    \/ BeginChatRetry(1)
    \/ RetryDurable(1)
    \/ RetryCache(1)
    \/ StoreGetMessages(1)
    \/ StoreGetSummary(1)
    \/ StoreInvokeSummaryModel(1)
    \/ StoreUpdateSummary(1)
    \/ StoreTrim(1)
    \/ ChatGetHistory(1)
    \/ ChatGetSummary(1)
    \/ ChatInvokeAgent(1)
    \/ FinishChat(1)

SpecRetry == Init /\ [][NextRetry]_vars

\* ------------------------------------------------------------------------
\* RedisService called method by method (what the cache API's endpoints and
\* the unit tests do), every call recorded with the stores it found
\* ------------------------------------------------------------------------
\* the arguments of the calls
Roles == <<"user", "assistant">>
Limits == {NoneInt, IntV(0), IntV(2)}
KeepLasts == {NoneInt, IntV(0), IntV(1), IntV(2)}

\* the record of a call
Called(op, s, arg, outcome, ret, flag) ==
    [op |-> op, session |-> s, arg |-> arg, outcome |-> outcome,
     ret |-> ret, flag |-> flag,
     again |-> /\ call.op = op /\ call.session = s /\ call.arg = arg
               /\ call.outcome = "ok" /\ outcome = "ok",
     init |-> initialized,
     window |-> window, csum |-> csum]

\* what no RedisService call changes
CallFrame ==
    /\ ncalls' = ncalls + 1
    /\ UNCHANGED <<durable, dsum, nextId, turns, pc, req, triggered, crossings>>
    /\ UNCHANGED <<mono_vars, directory, client_vars>>

\* if not self._initialized: raise RuntimeError(...), the first statement
\* of every data method
NotInitialized(op, s) ==
    /\ call' = Called(op, s, NoneInt, "runtime_error", <<>>, FALSE)
    /\ UNCHANGED <<window, csum, added, trimmed>>

\* add_message(session_id, message): RPUSH, LLEN, count >= message_limit;
\* the k-th call of a run carries the k-th text, the roles alternate
RedisAddMessage ==
    /\ ncalls < MaxCalls
    /\ \E s \in Sessions :
         LET message == [role |-> Roles[(ncalls % 2) + 1],
                         content |-> Contents[(ncalls % Len(Contents)) + 1],
                         timestamp |-> ncalls]
         IN  IF ~initialized THEN NotInitialized("add", s)
             ELSE /\ window' = [window EXCEPT ![s] = AddMessageList(@, message)]
                  /\ added' = [added EXCEPT ![s] =
                                  Append(@, [role |-> message.role,
                                             content |-> message.content])]
                  /\ call' = Called("add", s, NoneInt, "ok", <<>>,
                                    AddMessageNeedsSummarization(window[s], message))
                  /\ UNCHANGED <<csum, trimmed>>
    /\ UNCHANGED initialized
    /\ CallFrame

\* get_messages(session_id, limit)
RedisGetMessages ==
    /\ ncalls < MaxCalls
    /\ \E s \in Sessions, limit \in Limits :
         IF ~initialized THEN NotInitialized("get", s)
         ELSE /\ call' = Called("get", s, limit, "ok",
                                GetMessages(window[s], limit), FALSE)
              /\ UNCHANGED <<window, csum, added, trimmed>>
    /\ UNCHANGED initialized
    /\ CallFrame

\* get_message_count(session_id) and get_summary(session_id)
RedisGetCountOrSummary ==
    /\ ncalls < MaxCalls
    /\ \E s \in Sessions, op \in {"count", "summary"} :
         IF ~initialized THEN NotInitialized(op, s)
         ELSE /\ call' = Called(op, s, NoneInt, "ok",
                                IF op = "count" THEN <<GetMessageCount(window[s])>>
                                ELSE <<GetSummary(csum[s])>>,
                                FALSE)
              /\ UNCHANGED <<window, csum, added, trimmed>>
    /\ UNCHANGED initialized
    /\ CallFrame

\* trim_cache(session_id, keep_last)
RedisTrimCache ==
    /\ ncalls < MaxCalls
    /\ \E s \in Sessions, keep_last \in KeepLasts :
         IF ~initialized THEN NotInitialized("trim", s)
         ELSE /\ window' = [window EXCEPT ![s] = TrimCacheList(@, keep_last)]
              /\ trimmed' = [trimmed EXCEPT ![s] = TRUE]
              /\ call' = Called("trim", s, keep_last, "ok", <<>>,
                                TrimCacheReturn(window[s], keep_last))
              /\ UNCHANGED <<csum, added>>
    /\ UNCHANGED initialized
    /\ CallFrame

\* update_summary(session_id, summary): SET
RedisUpdateSummary ==
    /\ ncalls < MaxCalls
    /\ \E s \in Sessions :
         IF ~initialized THEN NotInitialized("update", s)
         ELSE /\ csum' = [csum EXCEPT ![s] = Some(ClientSummaryText)]
              /\ call' = Called("update", s, NoneInt, "ok", <<>>, TRUE)
              /\ UNCHANGED <<window, added, trimmed>>
    /\ UNCHANGED initialized
    /\ CallFrame

\* clear_session(session_id)
RedisClearSession ==
    /\ ncalls < MaxCalls
    /\ \E s \in Sessions, outcome \in ClearOutcomes :
         IF ~initialized THEN NotInitialized("clear", s)
         ELSE /\ window' = [window EXCEPT ![s] = ClearSessionList(@, outcome)]
              /\ csum' = [csum EXCEPT ![s] = ClearSessionSummary(@, outcome)]
              /\ added' = IF outcome = "raise_first" THEN added
                           ELSE [added EXCEPT ![s] = <<>>]
              /\ trimmed' = IF outcome = "raise_first" THEN trimmed
                             ELSE [trimmed EXCEPT ![s] = FALSE]
              /\ call' = Called("clear", s, NoneInt, outcome, <<>>, outcome = "ok")
    /\ UNCHANGED initialized
    /\ CallFrame

\* add_message, get_messages, trim_cache or update_summary whose Redis
\* command raises: the error is logged and re-raised, the keys are as they
\* were
RedisCallRaises ==
    /\ ncalls < MaxCalls
    /\ initialized
    /\ \E s \in Sessions :
         call' = Called("raised", s, NoneInt, "raise", <<>>, FALSE)
    /\ UNCHANGED <<window, csum, added, trimmed, initialized>>
    /\ CallFrame

\* a close() that keeps the flag when one of its two closing calls raised
CloseInitializedUnlessRaised(was, client_ok, pool_ok) ==
    IF client_ok /\ pool_ok THEN FALSE ELSE was

\* close(): client.close() and pool.disconnect(), each in its own
\* try / except Exception that logs; then self._initialized = False
CloseInitialized(was, client_ok, pool_ok) == FALSE

RedisClose ==
    /\ ncalls < MaxCalls
    /\ \E client_ok \in BOOLEAN, pool_ok \in BOOLEAN :
         /\ initialized' = CloseInitialized(initialized, client_ok, pool_ok)
         /\ call' = Called("close", "s1", NoneInt,
                           IF client_ok /\ pool_ok THEN "ok" ELSE "raise_logged",
                           <<>>, FALSE)
    /\ UNCHANGED <<window, csum, added, trimmed>>
    /\ CallFrame

\* RedisService(): a new instance over the same Redis server; the
\* constructor sets _initialized once health_check() has passed and raises
\* otherwise, when no instance is obtained
RedisConstruct ==
    /\ ncalls < MaxCalls
    /\ ~initialized
    /\ \E healthy \in BOOLEAN :
         /\ initialized' = healthy
         /\ call' = Called("init", "s1", NoneInt,
                           IF healthy THEN "ok" ELSE "raise", <<>>, FALSE)
    /\ UNCHANGED <<window, csum, added, trimmed>>
    /\ CallFrame

NextCache ==
    \/ RedisAddMessage
    \/ RedisGetMessages
    \/ RedisGetCountOrSummary
    \/ RedisTrimCache
    \/ RedisUpdateSummary
    \/ RedisClearSession
    \/ RedisCallRaises
    \/ RedisClose
    \/ RedisConstruct

SpecCache == Init /\ [][NextCache]_vars

TypeOK ==
    /\ \A s \in Sessions : Len(window[s]) <= 2 * MaxTurns + MaxCalls
    /\ \A p \in Procs : pc[p] \in {"idle", "dur", "cache", "getmsgs", "getsum",
                                     "invoke", "updsum", "trim", "agent",
                                     "chat_sum", "chat_invoke", "title", "done",
                                     "gsm_msgs", "gsm_restore",
                                     "del_cache", "del_chat", "del_user"}
    /\ directory \subseteq Sessions
    /\ ncalls \in 0..MaxCalls
    /\ initialized \in BOOLEAN

\* ------------------------------------------------------------------------
\* Properties
\* ------------------------------------------------------------------------
\* the result of the store_message call the request made last
CurRet(r) == IF r.phase = "user" THEN r.ret1 ELSE r.ret2

\* a store_message call has just returned to the endpoint
JustReturned(p) == pc[p] \in {"agent", "title"}

\* the awaits of the summarization-and-trim cycle of store_message
CyclePcs == {"getmsgs", "getsum", "invoke", "updsum", "trim"}

\* C1: every threshold crossing of a session (an append that takes the hot
\* window from below message_limit to message_limit) triggers exactly one
\* summarization cycle and nothing else triggers one: after L-1 appends none
\* has run, after L appends exactly one, and no further one before the
\* window has dropped below the limit and crossed it again.
C1_OneCyclePerCrossing ==
    \A s \in Sessions : triggered[s] = crossings[s]

\* C2: trimming is gated on summarization success: every durable message
\* that entered the hot window is still in it or was part of a batch whose
\* summarization succeeded and whose summary was stored.
C2_TrimGatedOnSuccess ==
    \A i \in 1..Len(cass_messages) :
        LET m == cass_messages[i].content
        IN  m \in mcached =>
               \/ \E j \in 1..Len(rc_messages) : rc_messages[j].content = m
               \/ m \in mfolded

\* C3: when the text generation fails during a cycle, the summary in the
\* cache is what it was before the cycle (absent stays absent) and the hot
\* window has the length and content it had before the cycle.
C3_FailureKeepsStaleSummary ==
    (mcycle.ran /\ mcycle.failed) =>
        /\ rc_summary = mcycle.pre_summary
        /\ rc_messages = mcycle.pre_messages

\* C4: after every successful cycle of store_message the hot window holds
\* at most trim_keep_last messages (at its largest, message_limit) and the
\* cached summary is not empty.
C4_TrimInvariant ==
    \A p \in Procs :
        (req[p].completed /\ JustReturned(p)) =>
            /\ Len(window[req[p].session]) <= MessageLimit
            /\ csum[req[p].session].has
            /\ csum[req[p].session].text # <<>>

\* C5: when the durable append fails (the chat service call raises or
\* answers success false), store_message appends nothing to the hot window,
\* enters no summarization cycle and reports the failure (success False or
\* an exception), never success True.
C5_DurableFailureAborts ==
    \A p \in Procs :
        req[p].dur \in {"nack", "raise"} =>
            /\ req[p].cache = "none"
            /\ ~req[p].appended
            /\ ~req[p].cyc
            /\ CurRet(req[p]) \in {"false", "raise"}
            /\ \A i \in 1..Len(durable[req[p].session]) :
                   durable[req[p].session][i].message_id # req[p].message_id

\* C5 witness: a durable append was refused and store_message has returned
\* success False with the hot window of the session still empty
C5_Witness ==
    /\ req[1].dur = "nack"
    /\ req[1].ret1 = "false"
    /\ pc[1] = "agent"
    /\ window[req[1].session] = <<>>

\* C6: when the cache append fails, store_message has made the durable
\* append and still returns success True without raising.
C6_DegradeOnCacheFailure ==
    \A p \in Procs :
        req[p].cache \in {"nack", "raise"} => CurRet(req[p]) = "true"

C8_CycleMutualExclusion ==
    \A s \in Sessions :
        Cardinality({p \in Procs : pc[p] \in CyclePcs /\ req[p].session = s}) <= 1

\* C9: a failure inside the summarization-and-trim cycle does not fail
\* store_message: a call that entered the cycle does not raise.
C9_CycleFailureNotFatal ==
    \A p \in Procs : req[p].cyc => CurRet(req[p]) # "raise"

\* C10: after a successful cycle the cache summary and the durable summary
\* record of the session hold the same new summary text.
C10_SummaryInBothStores ==
    \A p \in Procs :
        (req[p].completed /\ JustReturned(p)) =>
            /\ dsum[req[p].session].has
            /\ dsum[req[p].session].text = csum[req[p].session].text

\* C13: summarize_async never raises and, when the text generation fails,
\* returns the previous summary it was given unchanged, the empty one
\* included; the message list it was given is left as it was.
C13_FailureReturnsPrevious ==
    (mcycle.ran /\ mcycle.failed) => mcycle.new_summary = mcycle.previous

\* every row of old is a row of new, in the same order
RowsKept(old, new) ==
    SelectSeq(new, LAMBDA x : \E i \in 1..Len(old) : old[i] = x) = old

\* the rows are ordered by message_id, oldest first
OldestFirst(rows) ==
    \A i, j \in 1..Len(rows) : i < j => rows[i].message_id < rows[j].message_id

\* C12: the durable store never trims: no step of store_message, of its
\* summarization-and-trim cycle or of chat removes or alters a durable
\* message; every append the chat service accepted is in the transcript,
\* and the transcript stays ordered oldest first.
C12_DurableNeverTrims ==
    [][\A s \in Sessions :
          /\ RowsKept(durable[s], durable'[s])
          /\ OldestFirst(durable'[s])
          /\ \A p \in Procs :
                (req'[p].dur = "ok" /\ req[p].dur # "ok" /\ req'[p].session = s) =>
                    \E i \in 1..Len(durable'[s]) :
                        durable'[s][i] = [message_id |-> req'[p].message_id,
                                          role |-> CurRole(req'[p]),
                                          content |-> CurContent(req'[p])]]_vars

\* C12 witness: two cycles ran on a session and its transcript holds more
\* rows than the hot window may hold
C12_Witness ==
    \E s \in Sessions : triggered[s] >= 2 /\ Len(durable[s]) > MessageLimit

\* C17: chat degrades on a cache failure: when the read of the hot window
\* or of the cached summary fails, chat goes on with an empty history or
\* with no summary, invokes the agent and returns the agent's response; the
\* cache error does not end the request.
C17_ChatDegrades ==
    \A p \in Procs :
        /\ req[p].hist = "raise" =>
               /\ pc[p] \in {"chat_sum", "chat_invoke"}
               /\ req[p].history_data = <<>>
               /\ req[p].result = "none"
        /\ req[p].sumr = "raise" =>
               /\ pc[p] = "chat_invoke"
               /\ req[p].summary_data = None
               /\ req[p].result = "none"
        /\ req[p].degraded =>
               /\ pc[p] = "dur"
               /\ req[p].phase = "assistant"
               /\ req[p].response \in Answers
               /\ req[p].result = "none"

\* C17 witness: the hot window held messages, its read failed, and the
\* agent was invoked with the system message and the user's message alone
\* and has answered
C17_Witness ==
    /\ req[1].degraded
    /\ window[req[1].session] # <<>>
    /\ Len(req[1].messages_payload) = 2

\* a get_session_messages call has returned the transcript
ReadReturned(p) == req[p].op = "read" /\ pc[p] = "done" /\ req[p].result = "ok"

\* C11: cold start: when the durable store holds messages and a summary
\* record of a session while its hot window and cached summary are absent,
\* get_session_messages restores the summary into the cache, from where
\* chat reads it, and leaves the hot window empty.
C11_ColdStartRestoresSummary ==
    \A p \in Procs :
        (ReadReturned(p) /\ req[p].cold) =>
            /\ csum[req[p].session] = Some(dsum[req[p].session].text)
            /\ window[req[p].session] = <<>>

\* C14 as stated: get_session_messages returns the durable transcript and
\* issues no read and no write to the cache service, whose state is the
\* same before and after the call.
C14_NeverTouchesCache ==
    \A p \in Procs :
        ReadReturned(p) =>
            /\ req[p].returned = durable[req[p].session]
            /\ req[p].cache_calls = 0
            /\ window[req[p].session] = req[p].win_before
            /\ csum[req[p].session] = req[p].sum_before

\* C14 amended: get_session_messages returns the durable transcript, oldest
\* first, and never changes the hot-window message list; for a transcript
\* that is not empty it does call the cache service, for the session-exists
\* read of its restoration step.
C14_ReturnsTranscriptKeepsWindow ==
    \A p \in Procs :
        ReadReturned(p) =>
            /\ req[p].returned = durable[req[p].session]
            /\ window[req[p].session] = req[p].win_before
            /\ (req[p].returned # <<>> => req[p].cache_calls >= 1)

\* C14 witness: a transcript of several messages was returned for a
\* session whose hot window holds messages
C14_Witness ==
    /\ ReadReturned(1)
    /\ Len(req[1].returned) >= 2
    /\ window[req[1].session] # <<>>

Returned(op) == call.op = op /\ call.outcome = "ok"

\* the most recent k entries of a list, in their order
LastK(list, k) == SubSeq(list, Len(list) - k + 1, Len(list))

\* C16: after clear_session has returned, get_messages yields the empty
\* list, get_message_count 0 and get_summary None for the session, whatever
\* was there before (also what a clear_session that failed between its two
\* deletes left); the keys of the other sessions are as they were, after a
\* successful and after a failed call.
C16_ClearRemovesBoth ==
    /\ Returned("clear") =>
           /\ GetMessages(window[call.session], NoneInt) = <<>>
           /\ GetMessageCount(window[call.session]) = 0
           /\ GetSummary(csum[call.session]) = None
    /\ call.op = "clear" =>
           \A t \in Sessions \ {call.session} :
               window[t] = call.window[t] /\ csum[t] = call.csum[t]

\* C16 witness: clear_session returned for a session that had messages and
\* a summary while another session holds messages and a summary
C16_Witness ==
    /\ Returned("clear")
    /\ call.window[call.session] # <<>>
    /\ call.csum[call.session].has
    /\ \E t \in Sessions \ {call.session} : window[t] # <<>> /\ csum[t].has

\* C18: round trip: after N add_message calls on a session, with no
\* trim_cache and no clear_session in between, get_messages without a limit
\* returns exactly the N (role, content) pairs in the order of the calls.
C18_RoundTrip ==
    (Returned("get") /\ call.arg = NoneInt /\ ~trimmed[call.session]) =>
        call.ret = added[call.session]

\* C18 witness: more messages than message_limit were added and read back
C18_Witness ==
    /\ Returned("get")
    /\ call.arg = NoneInt
    /\ ~trimmed[call.session]
    /\ Len(call.ret) > MessageLimit

\* C19: trim_cache(session, keep_last) on a window that is not longer than
\* keep_last changes nothing and returns False, each time it is called; and
\* a trim_cache called right after a trim_cache with the same keep_last
\* leaves the window as the first one left it.
C19_TrimIdempotent ==
    Returned("trim") =>
        /\ (call.arg # NoneInt /\ Len(call.window[call.session]) <= call.arg[1]) =>
               /\ window[call.session] = call.window[call.session]
               /\ ~call.flag
        /\ call.again => window[call.session] = call.window[call.session]

\* C19 witness: the second of two trim_cache(session, 1) calls in a row on
\* a window that the first one had cut down to one message
C19_Witness ==
    /\ Returned("trim")
    /\ call.again
    /\ call.arg = IntV(1)
    /\ Len(window[call.session]) = 1
    /\ ~call.flag

\* C20: trim_cache(session, keep_last) with keep_last >= 0: when the window
\* is longer than keep_last, it is afterwards exactly its most recent
\* keep_last messages in their order and the call returns True; otherwise
\* the window is unchanged and the call returns False.
C20_TrimKeepsLast ==
    (Returned("trim") /\ call.arg # NoneInt) =>
        LET before == call.window[call.session]
            k == call.arg[1]
        IN  IF Len(before) > k
            THEN window[call.session] = LastK(before, k) /\ call.flag
            ELSE window[call.session] = before /\ ~call.flag

\* the smaller of two numbers
Min(a, b) == IF a < b THEN a ELSE b

\* C21: get_messages(session, limit): for every positive limit it returns
\* the last min(limit, length) messages of the window, oldest first; with
\* no limit (None, or the 0 the cache API passes by default) it returns the
\* whole window oldest first; for a session with no key it returns the
\* empty sequence; it never modifies the window.
C21_GetMessagesLastLimit ==
    Returned("get") =>
        LET list == call.window[call.session]
        IN  /\ window = call.window
            /\ csum = call.csum
            /\ (call.arg # NoneInt /\ call.arg[1] > 0) =>
                   call.ret = LastK(list, Min(call.arg[1], Len(list)))
            /\ call.arg \in {NoneInt, ApiGetMessagesDefaultLimit} => call.ret = list
            /\ list = <<>> => call.ret = <<>>
            /\ (~trimmed[call.session] /\ call.arg # NoneInt /\ call.arg[1] > 0) =>
                   call.ret = LastK(added[call.session],
                                    Min(call.arg[1], Len(added[call.session])))

\* C21 witness: get_messages with a positive limit on a window that holds
\* more messages than the limit
C21_Witness ==
    /\ Returned("get")
    /\ call.arg # NoneInt
    /\ call.arg[1] > 0
    /\ Len(call.window[call.session]) > call.arg[1]
    /\ Len(call.ret) = call.arg[1]

\* C22: add_message returns needs_summarization True exactly when the
\* length of the session's own list after the append is >= message_limit,
\* on every append while the list is at or above the limit; the appends to
\* other sessions do not count.
C22_NeedsSummarizationOwnLength ==
    Returned("add") =>
        /\ call.flag = (Len(window[call.session]) >= MessageLimit)
        /\ Len(window[call.session]) = Len(call.window[call.session]) + 1
        /\ \A t \in Sessions \ {call.session} : window[t] = call.window[t]

\* C22 witness: an append to a list that was already at the limit returned
\* True while another session holds fewer messages than the limit
C22_Witness ==
    /\ Returned("add")
    /\ call.flag
    /\ Len(window[call.session]) > MessageLimit
    /\ \E t \in Sessions \ {call.session} :
           window[t] # <<>> /\ Len(window[t]) < MessageLimit

\* the data methods of RedisService
DataOps == {"add", "get", "count", "summary", "trim", "update", "clear"}

\* C24: every data operation of RedisService called while the service is
\* not initialized raises RuntimeError before touching the store, and
\* close() always leaves the service not initialized, also when closing the
\* client or disconnecting the pool raises.
C24_Lifecycle ==
    /\ (call.op \in DataOps /\ ~call.init) =>
           /\ call.outcome = "runtime_error"
           /\ window = call.window
           /\ csum = call.csum
    /\ call.outcome = "runtime_error" => (call.op \in DataOps /\ ~call.init)
    /\ call.op = "close" => ~initialized

\* C24 witness: trim_cache was called on a closed service whose store
\* holds messages, and was refused
C24_Witness ==
    /\ call.op = "trim"
    /\ call.outcome = "runtime_error"
    /\ Len(window[call.session]) >= 2
    /\ ~initialized

\* C23: the retries of ServiceClient._request are bounded: for every
\* configured max_retries it makes at most max_retries attempts; it returns
\* the JSON of the first successful response and makes no attempt after a
\* success, or raises the error of the final failed attempt; it never
\* returns without having obtained a response.
C23_RetriesBounded ==
    /\ rq.made <= rq.max
    /\ Len(rq.outcomes) = rq.made
    /\ \A i \in 1..(rq.made - 1) : rq.outcomes[i] = "http_error"
    /\ rq.state = "raised" =>
           /\ rq.made >= 1
           /\ rq.outcomes[rq.made] \in {"http_error", "bad_json"}
    /\ rq.state = "returned" =>
           /\ rq.got
           /\ rq.made >= 1
           /\ rq.outcomes[rq.made] \in {"ok", "nack"}

\* the rows of a transcript that carry one message_id
RowsOf(rows, id) == {i \in 1..Len(rows) : rows[i].message_id = id}

\* C30: a retry does not duplicate messages: each store_message call adds
\* at most one entry to the hot window of the session and at most one row
\* per message_id to the durable transcript, also when ServiceClient
\* retries a POST whose earlier attempt the server had carried out.
C30_RetryNoDuplicates ==
    /\ rq.target = "cache" => Len(window[rq.session]) <= rq.before + 1
    /\ \A s \in Sessions : \A i \in 1..Len(durable[s]) :
           Cardinality(RowsOf(durable[s], durable[s][i].message_id)) <= 1

\* the chat request of p has answered success
ChatSucceeded(p) == req[p].op = "chat" /\ pc[p] = "done" /\ req[p].result = "ok"

\* the user message of the request of p is in the transcript and in the
\* hot window of its session
UserMessageStored(p) ==
    LET r == req[p]
        s == r.session
    IN  /\ \E i \in 1..Len(durable[s]) :
               durable[s][i].role = "user" /\ durable[s][i].content = r.content
        /\ \E i \in 1..Len(window[s]) :
               window[s][i] = [role |-> "user", content |-> r.content]

UserLines(text) == {i \in 1..Len(text) : text[i][1] = "user"}

\* C26: no double folding in store_message: under sequential calls with no
\* failures no message is passed to the summary model in more than one
\* cycle: the batches of successive cycles of a session are pairwise
\* disjoint and each update folds only the previous summary plus the batch
\* being trimmed, so no user message is folded into the summary twice.
C26_NoDoubleFolding ==
    /\ \A s \in Sessions :
           \A i, j \in UserLines(csum[s].text) :
               i # j => csum[s].text[i] # csum[s].text[j]
    /\ \A p \in Procs :
           pc[p] = "trim" =>
               \A i \in 1..Len(req[p].all_messages) :
                   \A j \in 1..Len(OrEmpty(req[p].current_summary)) :
                       req[p].all_messages[i].role = "user" =>
                           OrEmpty(req[p].current_summary)[j] #
                               <<"user", req[p].all_messages[i].content>>

\* C27: ground truth in the monolith coordinator: at every state every
\* message in the hot window of the session is also in the durable
\* transcript; a message whose durable append failed is never written to
\* the cache and never triggers summarization.
C27_CacheWithinDurable ==
    /\ \A i \in 1..Len(rc_messages) :
           \E j \in 1..Len(cass_messages) :
               cass_messages[j] = rc_messages[i]
    /\ mcycle.ran =>
           \A i \in 1..Len(mcycle.batch) :
               \E j \in 1..Len(cass_messages) :
                   cass_messages[j] = mcycle.batch[i]

\* C29: hot-window bound in the monolith: for a fresh RAGChatbot session
\* used synchronously with no store failures, the Redis message list never
\* holds more than CACHE_MESSAGE_LIMIT + CACHE_MESSAGE_LIMIT // 2 messages,
\* and right after each completed summarization cycle it holds at most
\* CACHE_MESSAGE_LIMIT // 2.
C29_MonoWindowBound ==
    /\ Len(rc_messages) <= MessageLimit + MessageLimit \div 2
    /\ mcycle.ran => Len(rc_messages) <= MessageLimit \div 2

\* C29 witness: the second cycle of the session has just run on a list
\* that had grown to CACHE_MESSAGE_LIMIT + CACHE_MESSAGE_LIMIT // 2
C29_Witness ==
    /\ mcycle.ran
    /\ Len(mcycle.pre_messages) = MessageLimit + MessageLimit \div 2
    /\ Len(rc_messages) = MessageLimit \div 2
    /\ mstores = 2 * MessageLimit

\* the places of a message list that hold the user message of the request
Occurrences(payload, content) ==
    {i \in 1..Len(payload) : payload[i] = [type |-> "human", content |-> content]}

\* C28: the message list that chat sends to the agent contains the current
\* user message exactly once.
C28_UserMessageOnce ==
    \A p \in Procs :
        req[p].agent_calls = 1 =>
            Cardinality(Occurrences(req[p].messages_payload, req[p].content)) = 1

====
